---- MODULE Spec2Model ----
(***************************************************************************)
(* Crash-capture backends of sentry-native.                                *)
(*                                                                         *)
(*   Spec          the POSIX in-process backend                            *)
(*                 (src/backends/sentry_backend_inproc.c): handler         *)
(*                 installation, the capture pipeline on one thread,       *)
(*                 chaining to the previously registered handlers.         *)
(*   SpecTwoThreads  the same backend with faults arriving on two threads. *)
(*   SpecEvent     make_signal_event as a function of its inputs.          *)
(*   SpecWindows   the in-process backend on the structural-exception      *)
(*                 platform: the top-level exception filter.               *)
(*   SpecCrashpad  the breadcrumb ring of the crashpad backend             *)
(*                 (src/backends/sentry_backend_crashpad.cpp).             *)
(*   SpecLifecycle the lifecycle operations of the crashpad backend.       *)
(***************************************************************************)
EXTENDS Integers, Sequences, FiniteSets, TLC

VARIABLES
    \* ---- POSIX process state (sentry_backend_inproc.c) ----
    os_handlers,          \* the kernel's sigaction table, per slot of SIGNAL_DEFINITIONS
    g_previous_handlers,  \* static struct sigaction g_previous_handlers[SIGNAL_COUNT]
    g_signal_stack,       \* static stack_t g_signal_stack: [ss_sp, ss_flags]
    os_altstack,          \* what sigaltstack() last registered with the kernel
    alive,                \* the process has not terminated
    page_allocator,       \* Signal-Safe Allocator Mode is on
    in_signal_handler,    \* the Reentrancy Guard flag
    crash_marker,         \* number of crash marker writes
    opts_transport,       \* opts->transport
    session,              \* the current session, "none" when there is none
    ended_sessions,       \* statuses the sessions were ended with
    captured,             \* number of events handed to sentry_capture_event
    pc,                   \* per thread: position in handle_ucontext
    uctx,                 \* per thread: the sentry_ucontext_t being handled
    stack,                \* per thread: the active handle_ucontext frames, outermost first:
                          \*   "signal" handle_signal run by the kernel, "call" handle_signal
                          \*   called by invoke_signal_handler, "except" handle_except
    sig_slot,             \* per thread: handle_ucontext's sig_slot (0 = NULL)
    transport,            \* per thread: handle_ucontext's local `transport`
    pending,              \* per thread: a raise()d signal is blocked and pending
    trace,                \* per thread: what was done for the current fault, in order
    deliveries,           \* number of faults delivered and except calls made so far
    \* ---- crashpad backend state (sentry_backend_crashpad.cpp) ----
    data,                 \* crashpad_state_t
    fileA,                \* records held by __sentry-breadcrumb1, oldest first
    fileB,                \* records held by __sentry-breadcrumb2, oldest first
    scope,                \* the scope held in memory
    scope_file,           \* content of __sentry-event
    crumb_refs,           \* references left on the breadcrumb passed to the last call
    crumb_calls,          \* number of add_breadcrumb calls made
    all_ok,               \* every add_breadcrumb call so far wrote its record
    last_call,            \* what the last add_breadcrumb call did
    first_chance_handler, \* sentry__crashpad_handler is registered with crashpad
    last_flush,           \* what the flush_scope calls so far did
    backend,              \* backend->data: its allocation, and what was done to it
    \* ---- structural-exception platform (sentry_backend_inproc.c) ----
    top_level_filter,     \* the process's top-level exception filter
    g_previous_handler,   \* static LPTOP_LEVEL_EXCEPTION_FILTER g_previous_handler
    last_exception,       \* the last exception handled, and what the filter returned
    \* ---- make_signal_event on its own ----
    built                 \* a slot, a backtrace and the events built from them

posix_vars == <<os_handlers, g_previous_handlers, g_signal_stack, os_altstack, alive,
                page_allocator, in_signal_handler, crash_marker, opts_transport,
                session, ended_sessions, captured, pc, uctx, stack,
                sig_slot, transport, pending, trace, deliveries>>

crashpad_vars == <<data, fileA, fileB, scope, scope_file, crumb_refs, crumb_calls,
                   all_ok, last_call, first_chance_handler, last_flush, backend>>

extra_vars == <<top_level_filter, g_previous_handler, last_exception, built>>

vars == <<posix_vars, crashpad_vars, extra_vars>>

----------------------------------------------------------------------------
(* Bounds of the model *)

MaxDeliveries == 2     \* faults delivered plus except calls explored
MaxRuns == 2           \* runs of handle_ucontext explored per delivery
ExtraCalls == 3        \* add_breadcrumb calls explored beyond two full files

\* The capacity of one breadcrumb file. The SDK's public header sets it; the
\* ring is explored with a small capacity.
SENTRY_BREADCRUMBS_MAX == 3

MaxCalls == 2 * SENTRY_BREADCRUMBS_MAX + ExtraCalls

ExtraDepth == 2        \* stack depths explored beyond MAX_FRAMES

MaxCrumbsLifecycle == 2   \* add_breadcrumb calls explored among the lifecycle calls

----------------------------------------------------------------------------
(* The signal table *)

SIGNAL_COUNT == 6

Slots == 1..SIGNAL_COUNT

SIGNAL_DEFINITIONS ==
    << [signum |-> 4,  signame |-> "SIGILL",  sigdesc |-> "IllegalInstruction"],
       [signum |-> 5,  signame |-> "SIGTRAP", sigdesc |-> "Trap"],
       [signum |-> 6,  signame |-> "SIGABRT", sigdesc |-> "Abort"],
       [signum |-> 7,  signame |-> "SIGBUS",  sigdesc |-> "BusError"],
       [signum |-> 8,  signame |-> "SIGFPE",  sigdesc |-> "FloatingPointException"],
       [signum |-> 11, signame |-> "SIGSEGV", sigdesc |-> "Segfault"] >>

Signums == {SIGNAL_DEFINITIONS[i].signum : i \in Slots}

\* A struct sigaction: which handler, and whether SA_SIGINFO is set.
Sigaction(h, si) == [handler |-> h, siginfo |-> si]

SIG_DFL == Sigaction("SIG_DFL", FALSE)

SIG_IGN == Sigaction("SIG_IGN", FALSE)

\* g_sigaction as startup fills it: handle_signal with SA_SIGINFO | SA_ONSTACK
g_sigaction == Sigaction("handle_signal", TRUE)

Threads == {"t1", "t2"}

\* Handlers the application had registered before the SDK started.
OriginalActions == {SIG_DFL, SIG_IGN, Sigaction("dummy", TRUE), Sigaction("dummy", FALSE)}

\* Outcomes of startup explored, <<malloc result, slot whose query fails, slot whose
\* install fails>> (0: none fails): success and each single failure.
StartupOutcomes == {<<"mem", 0, 0>>, <<"NULL", 0, 0>>, <<"mem", 4, 0>>, <<"mem", 0, 4>>}

\* Slots for which a third party is explored as registering its own handler.
ThirdPartySlots == {4, 6}

\* Signal numbers passed to except(): SIGSEGV, and one outside the table.
ExceptSignums == {11, 10}

\* What sentry_unwind_stack_from_ucontext reports for a machine context.
Backtraces == {<<101, 102, 103>>}

----------------------------------------------------------------------------
(* Pure helpers *)

\* The linear scan of handle_ucontext: the last matching entry, 0 for NULL.
LookupSlot(signum) ==
    LET hits == {i \in Slots : SIGNAL_DEFINITIONS[i].signum = signum}
    IN  IF hits = {} THEN 0 ELSE CHOOSE i \in hits : \A j \in hits : j <= i

MAX_FRAMES == 128

Min(a, b) == IF a < b THEN a ELSE b

\* make_signal_event with the slot's name and description exchanged.
make_signal_event_DescAsType(slot, bt) ==
    [level |-> "fatal",
     exception |-> [values |-> << [
         type |-> IF slot # 0 THEN SIGNAL_DEFINITIONS[slot].sigdesc ELSE "UnknownSignal",
         value |-> IF slot # 0 THEN SIGNAL_DEFINITIONS[slot].signame ELSE "UNKNOWN_SIGNAL",
         mechanism |-> [type |-> "signalhandler", synthetic |-> TRUE, handled |-> FALSE],
         stacktrace |-> [frames |-> << >>]] >>]]

\* make_signal_event with a frame loop that stops one frame short.
make_signal_event_DropsFrame(slot, bt) ==
    LET frame_count == Min(Len(bt), MAX_FRAMES)
        short == IF frame_count = 0 THEN 0 ELSE frame_count - 1
    IN  [level |-> "fatal",
         exception |-> [values |-> << [
             type |-> IF slot # 0 THEN SIGNAL_DEFINITIONS[slot].signame
                                   ELSE "UNKNOWN_SIGNAL",
             value |-> IF slot # 0 THEN SIGNAL_DEFINITIONS[slot].sigdesc
                                    ELSE "UnknownSignal",
             mechanism |-> [type |-> "signalhandler", synthetic |-> TRUE,
                            handled |-> FALSE,
                            meta |-> [signal |->
                                [has |-> slot # 0,
                                 name |-> IF slot # 0 THEN SIGNAL_DEFINITIONS[slot].signame
                                                      ELSE "",
                                 number |-> IF slot # 0 THEN SIGNAL_DEFINITIONS[slot].signum
                                                        ELSE 0]]],
             stacktrace |-> [frames |-> [i \in 1..short |->
                 [instruction_addr |-> bt[frame_count - (i - 1)]]]]] >>]]

\* make_signal_event(sig_slot, uctx); bt is what the unwinder wrote to backtrace[].
make_signal_event(slot, bt) ==
    LET frame_count == Min(Len(bt), MAX_FRAMES)
        frames == [i \in 1..frame_count |->
                      [instruction_addr |-> bt[frame_count - (i - 1)]]]
        signal_meta == IF slot # 0
                       THEN [has |-> TRUE,
                             name |-> SIGNAL_DEFINITIONS[slot].signame,
                             number |-> SIGNAL_DEFINITIONS[slot].signum]
                       ELSE [has |-> FALSE, name |-> "", number |-> 0]
        mechanism == [type |-> "signalhandler", synthetic |-> TRUE, handled |-> FALSE,
                      meta |-> [signal |-> signal_meta]]
        exc == [type |-> IF slot # 0 THEN SIGNAL_DEFINITIONS[slot].signame
                                      ELSE "UNKNOWN_SIGNAL",
                value |-> IF slot # 0 THEN SIGNAL_DEFINITIONS[slot].sigdesc
                                       ELSE "UnknownSignal",
                mechanism |-> mechanism,
                stacktrace |-> [frames |-> frames]]
    IN  [level |-> "fatal", exception |-> [values |-> <<exc>>]]

\* The address of the k-th oldest frame of the interrupted stack.
AddressOfFrame(k) == 1000 + k

\* sentry_unwind_stack_from_ucontext(uctx, ptrs, max_frames) for a stack of the
\* given depth: what it writes to ptrs, oldest frame first as its interface
\* states, never more than max_frames addresses.
Unwind(depth, max_frames) == [k \in 1..Min(depth, max_frames) |-> AddressOfFrame(k)]

\* One entry of a thread's trace.
Step(name, slot, a, b) == [step |-> name, slot |-> slot, a |-> a, b |-> b]

Log(t, name, slot, a, b) == [trace EXCEPT ![t] = Append(@, Step(name, slot, a, b))]

----------------------------------------------------------------------------
(* Initial state *)

PosixInitial(a, b, tr, se) ==
    /\ os_handlers = [i \in Slots |-> IF i = SIGNAL_COUNT THEN a ELSE b]
    /\ g_previous_handlers = [i \in Slots |-> SIG_DFL]
    /\ g_signal_stack = [ss_sp |-> "NULL", ss_flags |-> "0"]
    /\ os_altstack = [ss_sp |-> "NULL", enabled |-> FALSE]
    /\ alive = TRUE
    /\ page_allocator = FALSE
    /\ in_signal_handler = FALSE
    /\ crash_marker = 0
    /\ opts_transport = tr
    /\ session = se
    /\ ended_sessions = << >>
    /\ captured = 0
    /\ pc = [t \in Threads |-> "idle"]
    /\ uctx = [t \in Threads |-> [signum |-> 0, bt |-> << >>]]
    /\ stack = [t \in Threads |-> << >>]
    /\ sig_slot = [t \in Threads |-> 0]
    /\ transport = [t \in Threads |-> "NULL"]
    /\ pending = [t \in Threads |-> FALSE]
    /\ trace = [t \in Threads |-> << >>]
    /\ deliveries = 0

InitPosix ==
    \E a \in OriginalActions, tr \in {"NULL", "http"}, se \in {"none", "active"} :
        PosixInitial(a, Sigaction("dummy", FALSE), tr, se)

InitCrashpad ==
    /\ data = [db |-> "NULL", event_path |-> "NULL", breadcrumb1_path |-> "NULL",
               breadcrumb2_path |-> "NULL", num_breadcrumbs |-> 0]
    /\ fileA = << >>
    /\ fileB = << >>
    /\ scope = "scope0"
    /\ scope_file = << >>
    /\ crumb_refs = 0
    /\ crumb_calls = 0
    /\ all_ok = TRUE
    /\ last_call = [k |-> -1, target |-> "none", mode |-> "none", outcome |-> "none"]
    /\ first_chance_handler = FALSE
    /\ last_flush = [outcome |-> "none", good |-> << >>, torn |-> FALSE]
    /\ backend = [data |-> "allocated", frees |-> 0, null_deref |-> FALSE,
                  uploads |-> "unset"]

\* The structural-exception platform before startup: f is the top-level filter
\* the host had registered ("NULL": none).
WindowsInitial(f) ==
    /\ top_level_filter = f
    /\ g_previous_handler = "NULL"
    /\ last_exception = [code |-> "none", via |-> "none", result |-> "none",
                         runs |-> 0, chained |-> << >>]

\* No event has been built.
InitBuilt == built = [slot |-> 0, bt |-> << >>, events |-> << >>]

InitExtra == WindowsInitial("NULL") /\ InitBuilt

Init == InitPosix /\ InitCrashpad /\ InitExtra

InitCrashpadSpec ==
    /\ PosixInitial(SIG_DFL, SIG_DFL, "NULL", "none")
    /\ InitCrashpad
    /\ InitExtra

----------------------------------------------------------------------------
(* The POSIX in-process backend: lifecycle *)

os_vars == <<os_handlers, g_previous_handlers, g_signal_stack, os_altstack>>

pipeline_vars == <<page_allocator, in_signal_handler, crash_marker, opts_transport,
                   session, ended_sessions, captured>>

thread_vars == <<pc, uctx, stack, sig_slot, transport, pending, trace>>

\* Lifecycle calls come from the host's ordinary code: no thread is inside a
\* handler while one is made.
LifecycleCall ==
    /\ alive
    /\ \A t \in Threads : pc[t] = "idle"
    /\ UNCHANGED deliveries

\* The handlers recorded by startup's first loop when the query of slot r fails
\* (r = 0: no query fails): the array was zeroed, slots before r were filled.
RecordedHandlers(r) ==
    [i \in Slots |-> IF r = 0 \/ i < r THEN os_handlers[i] ELSE SIG_DFL]

\* The kernel table after startup's second loop when installing slot f fails
\* (f = 0: every install succeeds).
InstalledHandlers(f) ==
    [i \in Slots |-> IF i = f THEN os_handlers[i] ELSE g_sigaction]

\* startup_inproc_backend: m is what sentry_malloc returned.
Startup(m, r, f) ==
    /\ LifecycleCall
    /\ g_signal_stack' = [ss_sp |-> m, ss_flags |-> "0"]
    /\ os_altstack' = [ss_sp |-> m, enabled |-> TRUE]
    /\ g_previous_handlers' = RecordedHandlers(r)
    /\ os_handlers' = IF r # 0 THEN os_handlers ELSE InstalledHandlers(f)
    /\ UNCHANGED <<alive, pipeline_vars, thread_vars, crashpad_vars, extra_vars>>

\* What shutdown_inproc_backend leaves in the kernel's sigaction table.
ShutdownHandlers == os_handlers

\* shutdown_inproc_backend. Freeing a stack that was already freed is undefined:
\* the process may go on or die.
Shutdown ==
    /\ LifecycleCall
    /\ g_signal_stack' = [ss_sp |-> IF g_signal_stack.ss_sp = "mem" THEN "freed"
                                    ELSE g_signal_stack.ss_sp,
                          ss_flags |-> "SS_DISABLE"]
    /\ os_altstack' = [ss_sp |-> g_signal_stack.ss_sp, enabled |-> FALSE]
    /\ os_handlers' = ShutdownHandlers
    /\ IF g_signal_stack.ss_sp = "freed" THEN alive' \in BOOLEAN ELSE alive' = alive
    /\ UNCHANGED <<g_previous_handlers, pipeline_vars, thread_vars, crashpad_vars, extra_vars>>

\* Another component of the host registers its own handler for slot i.
ThirdPartyInstall(i, si) ==
    /\ LifecycleCall
    /\ os_handlers[i].handler # "third"
    /\ os_handlers' = [os_handlers EXCEPT ![i] = Sigaction("third", si)]
    /\ UNCHANGED <<g_previous_handlers, g_signal_stack, os_altstack, alive,
                   pipeline_vars, thread_vars, crashpad_vars, extra_vars>>

----------------------------------------------------------------------------
(* Fault delivery and the capture pipeline *)

\* handle_ucontext with the transport swapped before the marker is written.
PipelineOrder_SwapBeforeMarker ==
    << "page_allocator_enable", "enter_signal_handler", "enforce_disk_transport",
       "write_crash_marker", "end_session", "capture_event", "dump_queue",
       "reset_signal_handlers", "leave_signal_handler", "invoke_signal_handler" >>

\* handle_ucontext releasing the guard before it resets the handlers.
PipelineOrder_LeaveBeforeReset ==
    << "page_allocator_enable", "enter_signal_handler", "write_crash_marker",
       "enforce_disk_transport", "end_session", "capture_event", "dump_queue",
       "leave_signal_handler", "reset_signal_handlers", "invoke_signal_handler" >>

\* The statements of handle_ucontext after the slot lookup, in program order.
PipelineOrder ==
    << "page_allocator_enable", "enter_signal_handler", "write_crash_marker",
       "enforce_disk_transport", "end_session", "capture_event", "dump_queue",
       "reset_signal_handlers", "leave_signal_handler", "invoke_signal_handler" >>

\* The statement that follows statement p.
After(p) ==
    LET k == CHOOSE j \in DOMAIN PipelineOrder : PipelineOrder[j] = p
    IN  PipelineOrder[k + 1]

Runs(t) == Cardinality({k \in DOMAIN trace[t] : trace[t][k].step = "enter"})

Blocked(t) == \E k \in DOMAIN stack[t] : stack[t][k] = "signal"

\* A new frame of handle_signal / handle_except on thread t: the ucontext is
\* built and handle_ucontext scans the table for its slot. tr is the trace so far.
EnterFrame(t, kind, signum, bt, tr) ==
    /\ pc' = [pc EXCEPT ![t] = PipelineOrder[1]]
    /\ uctx' = [uctx EXCEPT ![t] = [signum |-> signum, bt |-> bt]]
    /\ stack' = [stack EXCEPT ![t] = Append(@, kind)]
    /\ sig_slot' = [sig_slot EXCEPT ![t] = LookupSlot(signum)]
    /\ trace' = [trace EXCEPT ![t] =
                    Append(tr, Step("enter", LookupSlot(signum), kind, ""))]

\* The kernel acts on a signal for slot i by its own table, without the dispatcher.
ByKernel(i) == Step("kernel", i, os_handlers[i].handler, "")

\* A fault for slot i on thread t: the kernel acts on its sigaction table.
Deliver(t, i, bt) ==
    /\ alive
    /\ pc[t] = "idle"
    /\ deliveries < MaxDeliveries
    /\ deliveries' = deliveries + 1
    /\ \/ /\ os_handlers[i].handler = "handle_signal"
          /\ EnterFrame(t, "signal", SIGNAL_DEFINITIONS[i].signum, bt, << >>)
          /\ pending' = [pending EXCEPT ![t] = FALSE]
          /\ UNCHANGED <<alive, transport>>
       \/ \* the alternate stack registered by startup is a null pointer: the
          \* kernel cannot build the handler's frame and kills the process
          /\ os_handlers[i].handler = "handle_signal"
          /\ os_altstack.enabled /\ os_altstack.ss_sp = "NULL"
          /\ alive' = FALSE
          /\ UNCHANGED thread_vars
       \/ /\ os_handlers[i].handler = "SIG_DFL"
          /\ alive' = FALSE
          /\ trace' = [trace EXCEPT ![t] = <<ByKernel(i)>>]
          /\ UNCHANGED <<pc, uctx, stack, sig_slot, transport, pending>>
       \/ /\ os_handlers[i].handler \in {"SIG_IGN", "dummy", "third"}
          /\ trace' = [trace EXCEPT ![t] = <<ByKernel(i)>>]
          /\ pc' = [pc EXCEPT ![t] = "done"]
          /\ UNCHANGED <<alive, uctx, stack, sig_slot, transport, pending>>
    /\ UNCHANGED <<os_vars, pipeline_vars, crashpad_vars, extra_vars>>

\* handle_except: the host calls except(uctx) on thread t.
Except(t, signum, bt) ==
    /\ alive
    /\ pc[t] = "idle"
    /\ deliveries < MaxDeliveries
    /\ deliveries' = deliveries + 1
    /\ EnterFrame(t, "except", signum, bt, << >>)
    /\ pending' = [pending EXCEPT ![t] = FALSE]
    /\ UNCHANGED <<os_vars, alive, pipeline_vars, transport, crashpad_vars, extra_vars>>

\* Thread t executes statement `from` of handle_ucontext, logged as `name`.
Advance(t, from, name, a) ==
    /\ alive
    /\ pc[t] = from
    /\ pc' = [pc EXCEPT ![t] = After(from)]
    /\ trace' = Log(t, name, sig_slot[t], a, "")
    /\ UNCHANGED <<uctx, stack, sig_slot, pending, alive, deliveries, crashpad_vars, extra_vars>>

PageAllocatorEnable(t) ==
    /\ Advance(t, "page_allocator_enable", "allocator_on", "")
    /\ page_allocator' = TRUE
    /\ UNCHANGED <<os_vars, in_signal_handler, crash_marker, opts_transport, session,
                   ended_sessions, captured, transport>>

EnterSignalHandler(t) ==
    /\ Advance(t, "enter_signal_handler", "guard_on", "")
    /\ in_signal_handler' = TRUE
    /\ UNCHANGED <<os_vars, page_allocator, crash_marker, opts_transport, session,
                   ended_sessions, captured, transport>>

WriteCrashMarker(t) ==
    /\ Advance(t, "write_crash_marker", "marker", "")
    /\ crash_marker' = crash_marker + 1
    /\ UNCHANGED <<os_vars, page_allocator, in_signal_handler, opts_transport, session,
                   ended_sessions, captured, transport>>

\* transport = opts->transport; sentry__enforce_disk_transport();
EnforceDiskTransport(t) ==
    /\ Advance(t, "enforce_disk_transport", "swap", opts_transport)
    /\ transport' = [transport EXCEPT ![t] = opts_transport]
    /\ opts_transport' = "disk"
    /\ UNCHANGED <<os_vars, page_allocator, in_signal_handler, crash_marker, session,
                   ended_sessions, captured>>

\* sentry__end_current_session_with_status(SENTRY_SESSION_STATUS_CRASHED)
EndCurrentSession(t) ==
    /\ Advance(t, "end_session", "session", session)
    /\ session' = "none"
    /\ ended_sessions' = IF session = "active" THEN Append(ended_sessions, "crashed")
                         ELSE ended_sessions
    /\ UNCHANGED <<os_vars, page_allocator, in_signal_handler, crash_marker,
                   opts_transport, captured, transport>>

\* sentry_capture_event(make_signal_event(sig_slot, uctx))
CaptureEvent(t) ==
    LET event == make_signal_event(sig_slot[t], uctx[t].bt)
    IN  /\ alive
        /\ pc[t] = "capture_event"
        /\ pc' = [pc EXCEPT ![t] = After("capture_event")]
        /\ UNCHANGED <<uctx, stack, sig_slot, pending, alive, deliveries, crashpad_vars, extra_vars>>
        /\ trace' = Log(t, "event", sig_slot[t], event.exception.values[1].type,
                        event.exception.values[1].value)
        /\ captured' = captured + 1
        /\ UNCHANGED <<os_vars, page_allocator, in_signal_handler, crash_marker,
                       opts_transport, session, ended_sessions, transport>>

\* if (transport) sentry__transport_dump_queue(transport, opts->run);
DumpQueue(t) ==
    /\ alive
    /\ pc[t] = "dump_queue"
    /\ pc' = [pc EXCEPT ![t] = After("dump_queue")]
    /\ trace' = IF transport[t] # "NULL"
                THEN Log(t, "dump", sig_slot[t], transport[t], "")
                ELSE trace
    /\ UNCHANGED <<os_vars, pipeline_vars, transport, uctx, stack, sig_slot, pending,
                   alive, deliveries, crashpad_vars, extra_vars>>

\* reset_signal_handlers with a loop that stops one slot short.
ResetHandlers_SkipsLast ==
    [i \in Slots |-> IF i = SIGNAL_COUNT THEN os_handlers[i] ELSE g_previous_handlers[i]]

\* The kernel's table after the loop of reset_signal_handlers.
ResetHandlers == [i \in Slots |-> g_previous_handlers[i]]

\* reset_signal_handlers
ResetSignalHandlers(t) ==
    /\ Advance(t, "reset_signal_handlers", "reset", "")
    /\ os_handlers' = ResetHandlers
    /\ UNCHANGED <<g_previous_handlers, g_signal_stack, os_altstack, pipeline_vars,
                   transport>>

LeaveSignalHandler(t) ==
    /\ Advance(t, "leave_signal_handler", "guard_off", "")
    /\ in_signal_handler' = FALSE
    /\ UNCHANGED <<os_vars, page_allocator, crash_marker, opts_transport, session,
                   ended_sessions, captured, transport>>

\* The handler struct invoke_signal_handler reads for slot i.
PreviousHandler(i) == g_previous_handlers[i]

\* invoke_signal_handler without the comparison of signal numbers.
InvokedSlot_NoCompare(signum) == 1

\* The slot invoke_signal_handler acts on for signum (0: none): the numbers of
\* the table are distinct, so its loop matches at most one slot.
InvokedSlot(signum) == LookupSlot(signum)

\* invoke_signal_handler(uctx->signum, uctx->siginfo, uctx->user_context)
InvokeSignalHandler(t) ==
    LET i == InvokedSlot(uctx[t].signum)
        h == PreviousHandler(i)
        raised == Append(trace[t], Step("invoke", i, "SIG_DFL", "raise"))
    IN  /\ alive
        /\ pc[t] = "invoke_signal_handler"
        /\ \/ \* no slot matches: the loop does nothing
              /\ i = 0
              /\ pc' = [pc EXCEPT ![t] = "return"]
              /\ UNCHANGED <<uctx, stack, sig_slot, trace, pending, alive>>
           \/ \* raise(signum) inside a handler the kernel runs for signum: the
              \* signal is blocked and stays pending until that handler returns
              /\ i # 0 /\ h.handler = "SIG_DFL" /\ Blocked(t)
              /\ pending' = [pending EXCEPT ![t] = TRUE]
              /\ trace' = [trace EXCEPT ![t] = raised]
              /\ pc' = [pc EXCEPT ![t] = "return"]
              /\ UNCHANGED <<uctx, stack, sig_slot, alive>>
           \/ \* raise(signum) outside a signal handler: delivered at once
              /\ i # 0 /\ h.handler = "SIG_DFL" /\ ~Blocked(t)
              /\ \/ /\ os_handlers[i].handler = "SIG_DFL"
                    /\ alive' = FALSE
                    /\ trace' = [trace EXCEPT ![t] = Append(raised, ByKernel(i))]
                    /\ UNCHANGED <<pc, uctx, stack, sig_slot>>
                 \/ /\ os_handlers[i].handler \in {"SIG_IGN", "dummy", "third"}
                    /\ trace' = [trace EXCEPT ![t] = Append(raised, ByKernel(i))]
                    /\ pc' = [pc EXCEPT ![t] = "return"]
                    /\ UNCHANGED <<uctx, stack, sig_slot, alive>>
                 \/ /\ os_handlers[i].handler = "handle_signal"
                    /\ Runs(t) < MaxRuns
                    /\ EnterFrame(t, "signal", uctx[t].signum, uctx[t].bt, raised)
                    /\ UNCHANGED alive
              /\ UNCHANGED pending
           \/ \* handler->sa_sigaction(signum, info, user_context)
              /\ i # 0 /\ h.handler # "SIG_DFL" /\ h.siginfo
              /\ \/ /\ h.handler = "handle_signal"
                    /\ Runs(t) < MaxRuns
                    /\ EnterFrame(t, "call", uctx[t].signum, uctx[t].bt,
                          Append(trace[t], Step("invoke", i, h.handler, "sa_sigaction")))
                 \/ /\ h.handler # "handle_signal"
                    /\ trace' = Log(t, "invoke", i, h.handler, "sa_sigaction")
                    /\ pc' = [pc EXCEPT ![t] = "return"]
                    /\ UNCHANGED <<uctx, stack, sig_slot>>
              /\ UNCHANGED <<pending, alive>>
           \/ \* func(signum)
              /\ i # 0 /\ h.handler \notin {"SIG_DFL", "SIG_IGN"} /\ ~h.siginfo
              /\ trace' = Log(t, "invoke", i, h.handler, "sa_handler")
              /\ pc' = [pc EXCEPT ![t] = "return"]
              /\ UNCHANGED <<uctx, stack, sig_slot, pending, alive>>
           \/ \* SIG_IGN: nothing further
              /\ i # 0 /\ h.handler = "SIG_IGN" /\ ~h.siginfo
              /\ pc' = [pc EXCEPT ![t] = "return"]
              /\ UNCHANGED <<uctx, stack, sig_slot, trace, pending, alive>>
        /\ UNCHANGED <<os_vars, pipeline_vars, transport, deliveries, crashpad_vars, extra_vars>>

\* handle_ucontext and its caller return on thread t. When the frame the kernel
\* runs returns, the signal is unblocked and a pending raise() is delivered.
Return(t) ==
    LET n == Len(stack[t])
        top == stack[t][n]
        rest == SubSeq(stack[t], 1, n - 1)
        after == IF rest = << >> THEN "done" ELSE "return"
        i == LookupSlot(uctx[t].signum)
        fire == top = "signal" /\ pending[t]
    IN  /\ alive
        /\ pc[t] = "return"
        /\ \/ /\ ~fire
              /\ stack' = [stack EXCEPT ![t] = rest]
              /\ pc' = [pc EXCEPT ![t] = after]
              /\ UNCHANGED <<pending, alive, trace>>
           \/ /\ fire /\ os_handlers[i].handler = "SIG_DFL"
              /\ alive' = FALSE
              /\ trace' = [trace EXCEPT ![t] = Append(@, ByKernel(i))]
              /\ UNCHANGED <<pending, stack, pc>>
           \/ /\ fire /\ os_handlers[i].handler \in {"SIG_IGN", "dummy", "third"}
              /\ trace' = [trace EXCEPT ![t] = Append(@, ByKernel(i))]
              /\ pending' = [pending EXCEPT ![t] = FALSE]
              /\ stack' = [stack EXCEPT ![t] = rest]
              /\ pc' = [pc EXCEPT ![t] = after]
              /\ UNCHANGED alive
           \/ /\ fire /\ os_handlers[i].handler = "handle_signal"
              /\ Runs(t) < MaxRuns
              /\ pending' = [pending EXCEPT ![t] = FALSE]
              /\ pc' = [pc EXCEPT ![t] = PipelineOrder[1]]
              /\ trace' = Log(t, "enter", i, "signal", "")
              /\ UNCHANGED <<stack, alive>>
        /\ UNCHANGED <<os_vars, pipeline_vars, uctx, sig_slot, transport, deliveries,
                       crashpad_vars, extra_vars>>

\* The handling of the fault is over and thread t resumes the host's code.
Resume(t) ==
    /\ alive
    /\ pc[t] = "done"
    /\ pc' = [pc EXCEPT ![t] = "idle"]
    /\ trace' = [trace EXCEPT ![t] = << >>]
    /\ UNCHANGED <<os_vars, pipeline_vars, uctx, stack, sig_slot, transport, pending,
                   alive, deliveries, crashpad_vars, extra_vars>>

\* The faults and except calls explored happen on the threads of T.
NextPosixOn(T) ==
    \/ \E o \in StartupOutcomes : Startup(o[1], o[2], o[3])
    \/ Shutdown
    \/ \E i \in ThirdPartySlots : ThirdPartyInstall(i, FALSE)
    \/ \E t \in T, i \in Slots, bt \in Backtraces : Deliver(t, i, bt)
    \/ \E t \in T, s \in ExceptSignums, bt \in Backtraces : Except(t, s, bt)
    \/ \E t \in T :
          \/ PageAllocatorEnable(t)
          \/ EnterSignalHandler(t)
          \/ WriteCrashMarker(t)
          \/ EnforceDiskTransport(t)
          \/ EndCurrentSession(t)
          \/ CaptureEvent(t)
          \/ DumpQueue(t)
          \/ ResetSignalHandlers(t)
          \/ LeaveSignalHandler(t)
          \/ InvokeSignalHandler(t)
          \/ Return(t)
          \/ Resume(t)

NextPosix == NextPosixOn({"t1"})

Spec == Init /\ [][NextPosix]_vars

\* make_signal_event is called for the slot and the backtrace of `built`.
BuildEvent ==
    /\ Len(built.events) < 2
    /\ built' = [built EXCEPT !.events = Append(@, make_signal_event(built.slot, built.bt))]
    /\ UNCHANGED <<posix_vars, crashpad_vars, top_level_filter, g_previous_handler,
                   last_exception>>

\* Every slot, and no slot (0), with every stack depth up to MAX_FRAMES and
\* some beyond it.
InitEvent ==
    /\ PosixInitial(SIG_DFL, SIG_DFL, "NULL", "none")
    /\ InitCrashpad
    /\ WindowsInitial("NULL")
    /\ \E sl \in 0..SIGNAL_COUNT, depth \in 0..(MAX_FRAMES + ExtraDepth) :
           built = [slot |-> sl, bt |-> Unwind(depth, MAX_FRAMES), events |-> << >>]

NextEvent == BuildEvent

SpecEvent == InitEvent /\ [][NextEvent]_vars

\* One statement of handle_ucontext, or the return from it, on thread t.
HandlerStep(t) ==
    \/ PageAllocatorEnable(t)
    \/ EnterSignalHandler(t)
    \/ WriteCrashMarker(t)
    \/ EnforceDiskTransport(t)
    \/ EndCurrentSession(t)
    \/ CaptureEvent(t)
    \/ DumpQueue(t)
    \/ ResetSignalHandlers(t)
    \/ LeaveSignalHandler(t)
    \/ InvokeSignalHandler(t)
    \/ Return(t)
    \/ Resume(t)

\* A fault on thread t1 while thread t2 is in the host's code.
FirstFault(i, bt) ==
    /\ pc["t2"] = "idle"
    /\ Deliver("t1", i, bt)

\* A fault on thread t2 while thread t1 is handling one: g_sigaction.sa_mask is
\* empty and a signal's mask is per thread, so nothing holds it back.
SecondFault(i, bt) ==
    /\ pc["t1"] \notin {"idle", "done"}
    /\ Deliver("t2", i, bt)

\* Faults on two threads after a startup: whenever both threads are handling a
\* fault, the dispatcher was invoked on t1 first and on t2 second.
NextTwoThreads ==
    \/ Startup("mem", 0, 0)
    \/ \E i \in Slots, bt \in Backtraces : FirstFault(i, bt)
    \/ \E i \in Slots, bt \in Backtraces : SecondFault(i, bt)
    \/ \E t \in Threads : HandlerStep(t)

\* The host has a transport and a session when the faults arrive.
InitTwoThreads ==
    /\ \E a \in OriginalActions : PosixInitial(a, Sigaction("dummy", FALSE), "http", "active")
    /\ InitCrashpad
    /\ InitExtra

SpecTwoThreads == InitTwoThreads /\ [][NextTwoThreads]_vars

----------------------------------------------------------------------------
(* The in-process backend on the structural-exception platform *)

WIN_SIGNAL_COUNT == 20

\* SIGNAL_DEFINITIONS of the structural-exception platform; an exception code
\* is written by its name.
WIN_SIGNAL_DEFINITIONS ==
    << [signum |-> "EXCEPTION_ACCESS_VIOLATION", signame |-> "EXCEPTION_ACCESS_VIOLATION",
        sigdesc |-> "AccessViolation"],
       [signum |-> "EXCEPTION_ARRAY_BOUNDS_EXCEEDED", signame |-> "EXCEPTION_ARRAY_BOUNDS_EXCEEDED",
        sigdesc |-> "ArrayBoundsExceeded"],
       [signum |-> "EXCEPTION_BREAKPOINT", signame |-> "EXCEPTION_BREAKPOINT",
        sigdesc |-> "BreakPoint"],
       [signum |-> "EXCEPTION_DATATYPE_MISALIGNMENT", signame |-> "EXCEPTION_DATATYPE_MISALIGNMENT",
        sigdesc |-> "DatatypeMisalignment"],
       [signum |-> "EXCEPTION_FLT_DENORMAL_OPERAND", signame |-> "EXCEPTION_FLT_DENORMAL_OPERAND",
        sigdesc |-> "FloatDenormalOperand"],
       [signum |-> "EXCEPTION_FLT_DIVIDE_BY_ZERO", signame |-> "EXCEPTION_FLT_DIVIDE_BY_ZERO",
        sigdesc |-> "FloatDivideByZero"],
       [signum |-> "EXCEPTION_FLT_INEXACT_RESULT", signame |-> "EXCEPTION_FLT_INEXACT_RESULT",
        sigdesc |-> "FloatInexactResult"],
       [signum |-> "EXCEPTION_FLT_INVALID_OPERATION", signame |-> "EXCEPTION_FLT_INVALID_OPERATION",
        sigdesc |-> "FloatInvalidOperation"],
       [signum |-> "EXCEPTION_FLT_OVERFLOW", signame |-> "EXCEPTION_FLT_OVERFLOW",
        sigdesc |-> "FloatOverflow"],
       [signum |-> "EXCEPTION_FLT_STACK_CHECK", signame |-> "EXCEPTION_FLT_STACK_CHECK",
        sigdesc |-> "FloatStackCheck"],
       [signum |-> "EXCEPTION_FLT_UNDERFLOW", signame |-> "EXCEPTION_FLT_UNDERFLOW",
        sigdesc |-> "FloatUnderflow"],
       [signum |-> "EXCEPTION_ILLEGAL_INSTRUCTION", signame |-> "EXCEPTION_ILLEGAL_INSTRUCTION",
        sigdesc |-> "IllegalInstruction"],
       [signum |-> "EXCEPTION_IN_PAGE_ERROR", signame |-> "EXCEPTION_IN_PAGE_ERROR",
        sigdesc |-> "InPageError"],
       [signum |-> "EXCEPTION_INT_DIVIDE_BY_ZERO", signame |-> "EXCEPTION_INT_DIVIDE_BY_ZERO",
        sigdesc |-> "IntegerDivideByZero"],
       [signum |-> "EXCEPTION_INT_OVERFLOW", signame |-> "EXCEPTION_INT_OVERFLOW",
        sigdesc |-> "IntegerOverflow"],
       [signum |-> "EXCEPTION_INVALID_DISPOSITION", signame |-> "EXCEPTION_INVALID_DISPOSITION",
        sigdesc |-> "InvalidDisposition"],
       [signum |-> "EXCEPTION_NONCONTINUABLE_EXCEPTION", signame |-> "EXCEPTION_NONCONTINUABLE_EXCEPTION",
        sigdesc |-> "NonContinuableException"],
       [signum |-> "EXCEPTION_PRIV_INSTRUCTION", signame |-> "EXCEPTION_PRIV_INSTRUCTION",
        sigdesc |-> "PrivilgedInstruction"],
       [signum |-> "EXCEPTION_SINGLE_STEP", signame |-> "EXCEPTION_SINGLE_STEP",
        sigdesc |-> "SingleStep"],
       [signum |-> "EXCEPTION_STACK_OVERFLOW", signame |-> "EXCEPTION_STACK_OVERFLOW",
        sigdesc |-> "StackOverflow"] >>

\* The exception codes explored: those of the table and one outside it.
ExceptionCodes ==
    {WIN_SIGNAL_DEFINITIONS[i].signum : i \in 1..WIN_SIGNAL_COUNT} \cup {"EXCEPTION_GUARD_PAGE"}

\* The scan of handle_ucontext over the table: the last match, 0 for NULL.
WinLookupSlot(code) ==
    LET hits == {i \in 1..WIN_SIGNAL_COUNT : WIN_SIGNAL_DEFINITIONS[i].signum = code}
    IN  IF hits = {} THEN 0 ELSE CHOOSE i \in hits : \A j \in hits : j <= i

\* handle_exception passing only the breakpoint code on.
IsDebuggerCode_BreakpointOnly(code) == code = "EXCEPTION_BREAKPOINT"

\* The test handle_exception makes before anything else.
IsDebuggerCode(code) == code \in {"EXCEPTION_BREAKPOINT", "EXCEPTION_SINGLE_STEP"}

\* What handle_ucontext does on this platform for an exception of the given
\* code, in order; kind is how it was entered.
WinPipelineSteps(code, kind) ==
    LET sl == WinLookupSlot(code)
        type == IF sl # 0 THEN WIN_SIGNAL_DEFINITIONS[sl].signame ELSE "UNKNOWN_SIGNAL"
        value == IF sl # 0 THEN WIN_SIGNAL_DEFINITIONS[sl].sigdesc ELSE "UnknownSignal"
    IN  << Step("enter", sl, kind, ""),
           Step("marker", sl, "", ""),
           Step("swap", sl, opts_transport, ""),
           Step("session", sl, session, ""),
           Step("event", sl, type, value) >>
        \o (IF opts_transport # "NULL" THEN <<Step("dump", sl, opts_transport, "")>>
            ELSE << >>)

\* handle_ucontext on this platform, run to its end on thread t1.
WinHandleUcontext(code, kind) ==
    /\ crash_marker' = crash_marker + 1
    /\ transport' = [transport EXCEPT !["t1"] = opts_transport]
    /\ opts_transport' = "disk"
    /\ session' = "none"
    /\ ended_sessions' = IF session = "active" THEN Append(ended_sessions, "crashed")
                         ELSE ended_sessions
    /\ captured' = captured + 1
    /\ trace' = [trace EXCEPT !["t1"] = WinPipelineSteps(code, kind)]

\* startup_inproc_backend
WinStartup ==
    /\ alive
    /\ g_previous_handler' = top_level_filter
    /\ top_level_filter' = "handle_exception"
    /\ UNCHANGED <<posix_vars, crashpad_vars, last_exception, built>>

\* shutdown_inproc_backend
WinShutdown ==
    /\ alive
    /\ top_level_filter' = IF top_level_filter # "handle_exception"
                           THEN top_level_filter
                           ELSE g_previous_handler
    /\ UNCHANGED <<posix_vars, crashpad_vars, g_previous_handler, last_exception, built>>

\* Another component of the host registers its own top-level filter.
WinThirdPartyFilter ==
    /\ alive
    /\ top_level_filter # "third_filter"
    /\ top_level_filter' = "third_filter"
    /\ UNCHANGED <<posix_vars, crashpad_vars, g_previous_handler, last_exception, built>>

\* handle_exception: the system calls the top-level filter for an exception
\* nothing handled. The filter returns EXCEPTION_CONTINUE_SEARCH, and the
\* search that continues ends the process.
HandleException(code) ==
    /\ alive
    /\ top_level_filter = "handle_exception"
    /\ IF IsDebuggerCode(code)
       THEN UNCHANGED <<pipeline_vars, transport, trace>>
       ELSE /\ WinHandleUcontext(code, "filter")
            /\ UNCHANGED <<page_allocator, in_signal_handler>>
    /\ last_exception' = [code |-> code, via |-> "filter",
                          result |-> "EXCEPTION_CONTINUE_SEARCH",
                          runs |-> IF IsDebuggerCode(code) THEN 0 ELSE 1,
                          chained |-> << >>]
    /\ alive' = FALSE
    /\ UNCHANGED <<os_vars, pc, uctx, stack, sig_slot, pending, deliveries,
                   crashpad_vars, top_level_filter, g_previous_handler, built>>

\* handle_except: the host calls except(uctx) for an exception of the given code.
WinExcept(code) ==
    /\ alive
    /\ deliveries < MaxDeliveries
    /\ deliveries' = deliveries + 1
    /\ WinHandleUcontext(code, "except")
    /\ last_exception' = [code |-> code, via |-> "except", result |-> "none",
                          runs |-> 1, chained |-> << >>]
    /\ UNCHANGED <<os_vars, alive, page_allocator, in_signal_handler, pc, uctx, stack,
                   sig_slot, pending, crashpad_vars, top_level_filter,
                   g_previous_handler, built>>

InitWindows ==
    /\ \E tr \in {"NULL", "http"}, se \in {"none", "active"} :
           PosixInitial(SIG_DFL, SIG_DFL, tr, se)
    /\ InitCrashpad
    /\ \E f \in {"NULL", "app_filter"} : WindowsInitial(f)
    /\ InitBuilt

NextWindows ==
    \/ WinStartup
    \/ WinShutdown
    \/ WinThirdPartyFilter
    \/ \E code \in ExceptionCodes : HandleException(code)
    \/ \E code \in ExceptionCodes : WinExcept(code)

SpecWindows == InitWindows /\ [][NextWindows]_vars

----------------------------------------------------------------------------
(* The crashpad backend: scope snapshot and breadcrumb ring *)

\* sentry_value_to_msgpack: the buffer encoding one value, or NULL when it fails.
ToMsgpack(v, ok) == [null |-> ~ok, bytes |-> IF ok THEN <<v>> ELSE << >>]

\* The file after sentry__path_write_buffer(path, buf): on success it holds the
\* buffer alone; a failed call left it as it was or already truncated it.
WriteBuffer(old, buf, io) ==
    CASE io = "ok" -> buf
      [] io = "open_failed" -> old
      [] io = "write_failed" -> << >>

\* The file after sentry__path_append_buffer(path, buf).
AppendBuffer(old, buf, io) == IF io = "ok" THEN old \o buf ELSE old

IoOutcomes == {"ok", "open_failed", "write_failed"}

\* flush_scope writing with sentry__path_append_buffer.
FlushedScopeFile_Appends(d, file, ser_ok, io) ==
    LET mpack == ToMsgpack(scope, ser_ok)
    IN  IF d.event_path = "NULL" THEN file
        ELSE IF mpack.null THEN file
        ELSE AppendBuffer(file, mpack.bytes, io)

\* sentry__crashpad_backend_flush_scope: the snapshot file afterwards.
FlushedScopeFile(d, file, ser_ok, io) ==
    LET mpack == ToMsgpack(scope, ser_ok)
    IN  IF d.event_path = "NULL" THEN file
        ELSE IF mpack.null THEN file
        ELSE WriteBuffer(file, mpack.bytes, io)

\* How a flush_scope call ended.
FlushOutcome(d, ser_ok, io) ==
    IF d.event_path = "NULL" THEN "unset"
    ELSE IF ToMsgpack(scope, ser_ok).null THEN "serialization_failed"
    ELSE io

\* The account of the flushes after one more call: how it ended, the
\* serialization written by the last call whose serialization and write
\* succeeded, and whether a write has failed on the opened file since then.
FlushRecord(lf, d, ser_ok, io) ==
    LET outcome == FlushOutcome(d, ser_ok, io)
    IN  [outcome |-> outcome,
         good |-> IF outcome = "ok" THEN ToMsgpack(scope, TRUE).bytes ELSE lf.good,
         torn |-> IF outcome = "ok" THEN FALSE
                  ELSE IF outcome = "write_failed" THEN TRUE
                  ELSE lf.torn]

\* user_consent_changed reaching GetSettings() whatever data->db is.
ReachesSettings_NoNullCheck(d) == TRUE

\* user_consent_changed: !data->db returns before data->db->GetSettings()
ReachesSettings(d) == d.db # "NULL"

\* backend->data after sentry__crashpad_backend_user_consent_changed; skip is
\* what sentry__should_skip_upload() returns.
ConsentChanged(b, d, skip) ==
    IF ~ReachesSettings(d) THEN b
    ELSE IF d.db = "NULL" THEN [b EXCEPT !.null_deref = TRUE]
    ELSE IF d.db = "db_no_settings" THEN b
    ELSE [b EXCEPT !.uploads = IF skip THEN "disabled" ELSE "enabled"]

\* The host calls the operations of a backend that is alive and not yet freed.
BackendCall ==
    /\ alive
    /\ backend.data = "allocated"

\* sentry__crashpad_backend_startup. how = "bad_path": the handler executable
\* is not found; "handler_failed": StartHandler fails; "started". db is what
\* CrashReportDatabase::Initialize returned. The host starts a backend once.
CrashpadStartup(how, db, ser_ok, io) ==
    /\ BackendCall
    /\ data.event_path = "NULL"
    /\ IF how = "bad_path"
       THEN UNCHANGED <<data, scope_file, last_flush, backend, first_chance_handler>>
       ELSE LET d == [data EXCEPT !.event_path = "__sentry-event",
                                  !.breadcrumb1_path = "__sentry-breadcrumb1",
                                  !.breadcrumb2_path = "__sentry-breadcrumb2",
                                  !.db = db]
            IN  /\ data' = d
                /\ scope_file' = FlushedScopeFile(d, scope_file, ser_ok, io)
                /\ last_flush' = FlushRecord(last_flush, d, ser_ok, io)
                /\ backend' = ConsentChanged(backend, d, FALSE)
                /\ first_chance_handler' = (how = "started")
    /\ UNCHANGED <<fileA, fileB, scope, crumb_refs, crumb_calls, all_ok, last_call,
                   posix_vars, extra_vars>>

\* first_breadcrumb true for the very first call only: files are never started over.
FirstBreadcrumb_OnlyFirstCall(n) == n = 0

\* first_breadcrumb of the call made when the counter is n
FirstBreadcrumb(n) == n % SENTRY_BREADCRUMBS_MAX = 0

\* breadcrumb_file without the alternation.
BreadcrumbFile_AlwaysFirst(d, n) == d.breadcrumb1_path

\* breadcrumb_file with the two paths exchanged.
BreadcrumbFile_Swapped(d, n) ==
    IF n % (SENTRY_BREADCRUMBS_MAX * 2) < SENTRY_BREADCRUMBS_MAX
    THEN d.breadcrumb2_path
    ELSE d.breadcrumb1_path

\* breadcrumb_file of the call made when the counter is n
BreadcrumbFile(d, n) ==
    IF n % (SENTRY_BREADCRUMBS_MAX * 2) < SENTRY_BREADCRUMBS_MAX
    THEN d.breadcrumb1_path
    ELSE d.breadcrumb2_path

\* The counter advanced only past calls that do not start a file.
NextCount_StallsOnFirst(n) == IF n % SENTRY_BREADCRUMBS_MAX = 0 /\ n > 0 THEN n ELSE n + 1

\* data->num_breadcrumbs++
NextCount(n) == n + 1

\* The references left on the breadcrumb when the call returns; the caller
\* passed in one. reached_decref: the call got to sentry_value_decref.
RefsAfterCall(reached_decref) == IF reached_decref THEN 0 ELSE 1

\* sentry__crashpad_backend_add_breadcrumb for the breadcrumb numbered
\* crumb_calls; ser_ok and io are the outcomes of serialization and of the write.
AddBreadcrumb(ser_ok, io) ==
    LET n == data.num_breadcrumbs
        first_breadcrumb == FirstBreadcrumb(n)
        breadcrumb_file == BreadcrumbFile(data, n)
        mpack == ToMsgpack(crumb_calls, ser_ok)
        target == IF breadcrumb_file = "__sentry-breadcrumb1" THEN "A"
                  ELSE IF breadcrumb_file = "__sentry-breadcrumb2" THEN "B" ELSE "none"
        old == IF target = "A" THEN fileA ELSE fileB
        new == IF first_breadcrumb THEN WriteBuffer(old, mpack.bytes, io)
                                   ELSE AppendBuffer(old, mpack.bytes, io)
        outcome == IF breadcrumb_file = "NULL" THEN "unset"
                   ELSE IF mpack.null THEN "serialization_failed"
                   ELSE io
        wrote == breadcrumb_file # "NULL" /\ ~mpack.null
    IN  /\ BackendCall
        /\ crumb_calls < MaxCalls
        /\ crumb_calls' = crumb_calls + 1
        /\ data' = [data EXCEPT !.num_breadcrumbs = NextCount(n)]
        /\ crumb_refs' = RefsAfterCall(breadcrumb_file # "NULL")
        /\ fileA' = IF wrote /\ target = "A" THEN new ELSE fileA
        /\ fileB' = IF wrote /\ target = "B" THEN new ELSE fileB
        /\ all_ok' = (all_ok /\ outcome = "ok")
        /\ last_call' = [k |-> crumb_calls, target |-> target,
                         mode |-> IF ~wrote THEN "none"
                                  ELSE IF first_breadcrumb THEN "write" ELSE "append",
                         outcome |-> outcome]
        /\ UNCHANGED <<scope, scope_file, first_chance_handler, last_flush, backend,
                       posix_vars, extra_vars>>

\* The host changes the scope held in memory.
SetScope(sc) ==
    /\ BackendCall
    /\ sc # scope
    /\ scope' = sc
    /\ UNCHANGED <<data, fileA, fileB, scope_file, crumb_refs, crumb_calls, all_ok,
                   last_call, first_chance_handler, last_flush, backend,
                   posix_vars, extra_vars>>

\* sentry__crashpad_backend_flush_scope
FlushScope(ser_ok, io) ==
    /\ BackendCall
    /\ scope_file' = FlushedScopeFile(data, scope_file, ser_ok, io)
    /\ last_flush' = FlushRecord(last_flush, data, ser_ok, io)
    /\ UNCHANGED <<data, fileA, fileB, scope, crumb_refs, crumb_calls, all_ok,
                   last_call, first_chance_handler, backend, posix_vars, extra_vars>>

\* sentry__crashpad_backend_user_consent_changed
UserConsentChanged(skip) ==
    /\ BackendCall
    /\ backend' = ConsentChanged(backend, data, skip)
    /\ UNCHANGED <<data, fileA, fileB, scope, scope_file, crumb_refs, crumb_calls,
                   all_ok, last_call, first_chance_handler, last_flush,
                   posix_vars, extra_vars>>

\* sentry__crashpad_backend_shutdown: delete data->db; data->db = nullptr;
CrashpadShutdown ==
    /\ BackendCall
    /\ data' = [data EXCEPT !.db = "NULL"]
    /\ UNCHANGED <<fileA, fileB, scope, scope_file, crumb_refs, crumb_calls, all_ok,
                   last_call, first_chance_handler, last_flush, backend,
                   posix_vars, extra_vars>>

\* sentry__crashpad_backend_free: the three paths are released, NULL or not,
\* and then the state itself.
CrashpadFree ==
    /\ BackendCall
    /\ backend' = [backend EXCEPT !.data = "freed", !.frees = @ + 1]
    /\ UNCHANGED <<data, fileA, fileB, scope, scope_file, crumb_refs, crumb_calls,
                   all_ok, last_call, first_chance_handler, last_flush,
                   posix_vars, extra_vars>>

\* What sentry__crashpad_handler does for a fault of the given slot, in order,
\* when the transport before the swap is tr.
CrashpadHandlerSteps(slot, tr) ==
    << Step("enter", slot, "signal", ""),
       Step("allocator_on", slot, "", ""),
       Step("guard_on", slot, "", ""),
       Step("marker", slot, "", ""),
       Step("swap", slot, tr, ""),
       Step("session", slot, session, ""),
       Step("dump", slot, tr, ""),
       Step("guard_off", slot, "", "") >>

\* What sentry__crashpad_backend_except does for a ucontext of the given slot
\* on POSIX: it is entered and (void)context is all it executes.
CrashpadExceptSteps(slot) == << Step("enter", slot, "except", "") >>

\* sentry__crashpad_handler, the first-chance handler crashpad runs on a fault
\* for slot i (POSIX). It returns false: crashpad then writes its report and
\* the process ends.
CrashpadHandler(i) ==
    /\ alive
    /\ first_chance_handler
    /\ page_allocator' = TRUE
    /\ in_signal_handler' = FALSE
    /\ crash_marker' = crash_marker + 1
    /\ session' = "none"
    /\ ended_sessions' = IF session = "active" THEN Append(ended_sessions, "crashed")
                         ELSE ended_sessions
    /\ trace' = [trace EXCEPT !["t1"] = CrashpadHandlerSteps(i, opts_transport)]
    /\ alive' = FALSE
    /\ UNCHANGED <<os_vars, opts_transport, captured, pc, uctx, stack, sig_slot,
                   transport, pending, deliveries, crashpad_vars, extra_vars>>

\* sentry__crashpad_backend_except(backend, context) on POSIX
CrashpadExcept(signum) ==
    /\ BackendCall
    /\ trace' = [trace EXCEPT !["t1"] = CrashpadExceptSteps(LookupSlot(signum))]
    /\ UNCHANGED <<os_vars, alive, pipeline_vars, pc, uctx, stack, sig_slot, transport,
                   pending, deliveries, crashpad_vars, extra_vars>>

NextCrashpad ==
    \/ \E how \in {"bad_path", "handler_failed", "started"}, db \in {"NULL", "db"},
          ser_ok \in BOOLEAN, io \in IoOutcomes : CrashpadStartup(how, db, ser_ok, io)
    \/ \E ser_ok \in BOOLEAN, io \in IoOutcomes : AddBreadcrumb(ser_ok, io)

SpecCrashpad == InitCrashpadSpec /\ [][NextCrashpad]_vars

\* The contents the host gives the scope.
Scopes == {"scope0", "scope1", "scope2"}

InitLifecycle ==
    /\ \E tr \in {"NULL", "http"}, se \in {"none", "active"} :
           PosixInitial(SIG_DFL, SIG_DFL, tr, se)
    /\ InitCrashpad
    /\ InitExtra

NextLifecycle ==
    \/ \E how \in {"bad_path", "handler_failed", "started"},
          db \in {"NULL", "db", "db_no_settings"}, ser_ok \in BOOLEAN, io \in IoOutcomes :
              CrashpadStartup(how, db, ser_ok, io)
    \/ \E sc \in Scopes : SetScope(sc)
    \/ \E ser_ok \in BOOLEAN, io \in IoOutcomes : FlushScope(ser_ok, io)
    \/ \E skip \in BOOLEAN : UserConsentChanged(skip)
    \/ \E ser_ok \in BOOLEAN :
          AddBreadcrumb(ser_ok, "ok") /\ crumb_calls < MaxCrumbsLifecycle
    \/ CrashpadShutdown
    \/ CrashpadFree
    \/ \E i \in Slots : CrashpadHandler(i)
    \/ \E signum \in ExceptSignums : CrashpadExcept(signum)

SpecLifecycle == InitLifecycle /\ [][NextLifecycle]_vars

----------------------------------------------------------------------------
(* Properties of the POSIX in-process backend, checked under Spec *)

Held(file) == {file[j] : j \in DOMAIN file}

At(t, names) == {k \in DOMAIN trace[t] : trace[t][k].step \in names}

\* Positions of the trace at which a previous handler or the kernel's own
\* disposition was handed the signal.
Chained(t) == At(t, {"invoke", "kernel"})

\* The fault of thread t reached the dispatcher through the kernel.
Dispatched(t) ==
    /\ trace[t] # << >>
    /\ trace[t][1].step = "enter"
    /\ trace[t][1].a = "signal"

\* The run of handle_ucontext that position k of the trace belongs to: the
\* entries after the latest "enter" at or before k, up to k.
RunUpTo(t, k) ==
    LET e == CHOOSE j \in At(t, {"enter"}) :
                 j <= k /\ \A m \in At(t, {"enter"}) : m <= k => m <= j
    IN  SubSeq(trace[t], e + 1, k)

IsStage(entry) == entry.step \in {"marker", "swap", "session", "event", "dump"}

StageNames(seq) == [j \in DOMAIN SelectSeq(seq, IsStage) |-> SelectSeq(seq, IsStage)[j].step]

StageOrder == <<"marker", "swap", "session", "event", "dump">>

IsPrefix(p, q) == Len(p) <= Len(q) /\ SubSeq(q, 1, Len(p)) = p

\* C1: after a startup that recorded a handler function for slot S, one
\* delivery of S to the dispatcher runs handle_ucontext exactly once and then
\* calls the recorded handler of S exactly once; nothing else is handed the signal.
C1_ChainOnce ==
    \A t \in Threads :
        (/\ pc[t] = "done"
         /\ Dispatched(t)
         /\ g_previous_handlers[trace[t][1].slot].handler \in {"dummy", "third"})
        => LET S == trace[t][1].slot
               n == Len(trace[t])
           IN  /\ Runs(t) = 1
               /\ Cardinality(At(t, {"marker"})) = 1
               /\ Cardinality(At(t, {"event"})) = 1
               /\ Chained(t) = {n}
               /\ trace[t][n].step = "invoke"
               /\ trace[t][n].slot = S
               /\ trace[t][n].a = g_previous_handlers[S].handler
               /\ \A k \in At(t, {"marker", "event", "dump"}) : k < n

C1_Witness ==
    /\ pc["t1"] = "done"
    /\ Dispatched("t1")
    /\ g_previous_handlers[trace["t1"][1].slot] = Sigaction("dummy", TRUE)
    /\ trace["t1"][1].slot = SIGNAL_COUNT
    /\ trace["t1"][Len(trace["t1"])] = Step("invoke", SIGNAL_COUNT, "dummy", "sa_sigaction")

\* C2: in every run of handle_ucontext, at every point of it, the stages done
\* so far are a prefix of: marker, transport swap, session, event capture,
\* queue dump; and once a run is past the dump it has done all of the first
\* four, and the dump iff a transport was active before the swap.
C2_StageOrder ==
    \A t \in Threads :
        /\ \A k \in DOMAIN trace[t] :
              trace[t][k].step # "enter" /\ At(t, {"enter"}) # {} /\ trace[t][1].step = "enter"
              => IsPrefix(StageNames(RunUpTo(t, k)), StageOrder)
        /\ pc[t] \in {"reset_signal_handlers", "leave_signal_handler", "invoke_signal_handler"}
              => LET done == StageNames(RunUpTo(t, Len(trace[t])))
                 IN  IF transport[t] # "NULL"
                     THEN done = StageOrder
                     ELSE done = SubSeq(StageOrder, 1, 4)

C2_Witness ==
    /\ pc["t1"] = "reset_signal_handlers"
    /\ transport["t1"] = "http"
    /\ StageNames(RunUpTo("t1", Len(trace["t1"]))) = StageOrder
    /\ crash_marker = 1
    /\ opts_transport = "disk"

\* C3 as claimed, for the signal handlers: shutdown leaves every slot whose
\* handler is still the dispatcher with the handler recorded at startup, and
\* every slot a third party has taken over with that party's handler.
C3_ShutdownRestores ==
    [][Shutdown =>
          \A i \in Slots :
              os_handlers'[i] = IF os_handlers[i] = g_sigaction
                                THEN g_previous_handlers[i]
                                ELSE os_handlers[i]]_vars

SIGSEGV_SLOT == LookupSlot(11)

\* What C4 says of a SIGSEGV delivered to the dispatcher, for an event type
\* and value: whenever a previous handler or the kernel's disposition is
\* handed the signal, the run of handle_ucontext doing so has before that
\* written the marker, ended the session as crashed if there was one, and
\* captured exactly one event, of that type and value; and a delivery handled
\* by one run has captured one event in all.
SegvCaptured(type, value) ==
    \A t \in Threads :
        (Dispatched(t) /\ uctx[t].signum = 11)
        => /\ \A k \in At(t, {"invoke"}) :
                 LET run == RunUpTo(t, k)
                     ev == SelectSeq(run, LAMBDA e : e.step = "event")
                     se == SelectSeq(run, LAMBDA e : e.step = "session")
                 IN  /\ Len(SelectSeq(run, LAMBDA e : e.step = "marker")) = 1
                     /\ crash_marker >= 1
                     /\ Len(se) = 1
                     /\ session = "none"
                     /\ se[1].a = "active" => "crashed" \in Held(ended_sessions)
                     /\ Len(ev) = 1
                     /\ ev[1].slot = SIGSEGV_SLOT
                     /\ ev[1].a = type
                     /\ ev[1].b = value
           /\ (Runs(t) = 1 /\ Chained(t) # {}) => Cardinality(At(t, {"event"})) = 1

\* C4 as claimed: the event's exception.values[0].type is "Segfault".
C4_TypeSegfault == SegvCaptured("Segfault", "Segfault")

\* C4 amended: the event's exception.values[0].type is "SIGSEGV", the slot's
\* name, and its value is "Segfault", the slot's description.
C4_SegvCaptured == SegvCaptured("SIGSEGV", "Segfault")

C4_Witness ==
    /\ pc["t1"] = "done"
    /\ Dispatched("t1")
    /\ uctx["t1"].signum = 11
    /\ At("t1", {"invoke"}) # {}
    /\ ended_sessions = <<"crashed">>
    /\ captured = 1

\* Thread t executes invoke_signal_handler in this step.
InvokeStep(t) ==
    /\ pc[t] = "invoke_signal_handler"
    /\ pc'[t] # pc[t] \/ trace'[t] # trace[t]

\* The entries a step adds to the trace of thread t.
Added(t) == SubSeq(trace'[t], Len(trace[t]) + 1, Len(trace'[t]))

\* C11: when a run of handle_ucontext comes to invoke_signal_handler, it has
\* reset the handlers and every slot of the kernel's table holds its recorded
\* previous handler; the record of the fault's slot is then treated by its
\* disposition: SIG_DFL, the same signal is raised; SIG_IGN, nothing is done;
\* a function, it is called once for that signal, as sa_sigaction when
\* recorded with SA_SIGINFO and as sa_handler otherwise; a signal number
\* outside the table, nothing is done.
C11_RestoreThenChain ==
    [][\A t \in Threads :
          InvokeStep(t) =>
              LET i == LookupSlot(uctx[t].signum)
                  h == g_previous_handlers[i]
                  run == RunUpTo(t, Len(trace[t]))
                  invokes == SelectSeq(Added(t), LAMBDA e : e.step = "invoke")
              IN  /\ \A j \in Slots : os_handlers[j] = g_previous_handlers[j]
                  /\ Len(SelectSeq(run, LAMBDA e : e.step = "reset")) = 1
                  /\ SelectSeq(run, LAMBDA e : e.step = "invoke") = << >>
                  /\ i = 0 => Added(t) = << >>
                  /\ i # 0 =>
                        CASE h.handler = "SIG_DFL" ->
                                 invokes = <<Step("invoke", i, "SIG_DFL", "raise")>>
                          [] h.handler = "SIG_IGN" -> Added(t) = << >>
                          [] OTHER ->
                                 invokes = <<Step("invoke", i, h.handler,
                                                  IF h.siginfo THEN "sa_sigaction"
                                                  ELSE "sa_handler")>>]_vars

C11_Witness ==
    /\ pc["t1"] = "return"
    /\ Dispatched("t1")
    /\ pending["t1"]
    /\ os_handlers = g_previous_handlers
    /\ At("t1", {"reset"}) # {}
    /\ trace["t1"][Len(trace["t1"])] = Step("invoke", SIGNAL_COUNT, "SIG_DFL", "raise")

\* The startups in which the allocation of the stack, the recording of a
\* previous handler or the installation of the dispatcher fails.
FailedStartups == StartupOutcomes \ {<<"mem", 0, 0>>}

\* C17: a startup of a backend that is not active, in which the allocation of
\* the signal stack fails, or the recording of a previous handler fails, or the
\* installation of the dispatcher fails for some slot, leaves the dispatcher
\* installed for no slot.
C17_FailedStartupInactive ==
    [][\A o \in FailedStartups :
          (/\ \A i \in Slots : os_handlers[i] # g_sigaction
           /\ Startup(o[1], o[2], o[3]))
          => \A i \in Slots : os_handlers'[i] # g_sigaction]_vars

\* Both Signal-Safe Allocator Mode and the Reentrancy Guard are engaged
\* whenever a run is about to write the marker, swap the transport, end the
\* session, capture the event or dump the queue.
EngagedThroughDump ==
    \A t \in Threads :
        pc[t] \in {"write_crash_marker", "enforce_disk_transport", "end_session",
                   "capture_event", "dump_queue"}
        => page_allocator /\ in_signal_handler

\* C20 as claimed: both are engaged from before the marker through the dump,
\* and both are disengaged by the time the run restores the handlers, so a
\* run that has restored them has neither engaged.
C20_DisengagedBeforeRestore ==
    /\ EngagedThroughDump
    /\ \A t \in Threads :
          pc[t] \in {"leave_signal_handler", "invoke_signal_handler"}
          => ~page_allocator /\ ~in_signal_handler

\* C20 amended: both are engaged from before the marker through the dump; the
\* guard is still engaged while the handlers are restored and is released
\* after that, before the previous handler is invoked; the allocator mode,
\* once engaged, is never disengaged.
C20_GuardOutlastsRestore ==
    /\ [](/\ EngagedThroughDump
          /\ \A t \in Threads :
                /\ pc[t] = "reset_signal_handlers" => page_allocator /\ in_signal_handler
                /\ pc[t] = "leave_signal_handler" =>
                      /\ page_allocator /\ in_signal_handler
                      /\ os_handlers = g_previous_handlers
                /\ pc[t] = "invoke_signal_handler" =>
                      /\ page_allocator /\ ~in_signal_handler
                      /\ os_handlers = g_previous_handlers)
    /\ [][page_allocator => page_allocator']_vars

C20_Witness ==
    /\ pc["t1"] = "leave_signal_handler"
    /\ Dispatched("t1")
    /\ page_allocator
    /\ in_signal_handler
    /\ os_handlers = g_previous_handlers
    /\ os_handlers[SIGNAL_COUNT] = Sigaction("dummy", TRUE)
    /\ At("t1", {"reset"}) # {}

\* C22: whatever startups and shutdowns were called, no Previous-Handler Record
\* holds the backend's own dispatcher, handle_signal.
C22_NoRecordIsDispatcher ==
    \A i \in Slots : g_previous_handlers[i].handler # "handle_signal"

\* C23: once a run of handle_ucontext, entered through a signal or through
\* except, has restored the handlers, the dispatcher is installed for none of
\* the six slots, and the call that started the run enters the pipeline no
\* second time.
C23_OneShot ==
    \A t \in Threads :
        /\ At(t, {"reset"}) # {} => \A i \in Slots : os_handlers[i].handler # "handle_signal"
        /\ Runs(t) <= 1

\* Thread t is between its engagement of the Reentrancy Guard and its release
\* of it.
Active(t) ==
    pc[t] \in {"write_crash_marker", "enforce_disk_transport", "end_session",
               "capture_event", "dump_queue", "reset_signal_handlers",
               "leave_signal_handler"}

\* Thread t executes a statement of handle_ucontext in this step.
Executes(t) ==
    /\ \E k \in DOMAIN PipelineOrder : pc[t] = PipelineOrder[k]
    /\ pc'[t] # pc[t]

\* C13, checked under SpecTwoThreads: while the first invocation of the
\* dispatcher (on t1) is between its guard engagement and its guard release,
\* the second invocation (on t2) executes no statement of the pipeline.
C13_SecondWaits == [][~(Active("t1") /\ Executes("t2"))]_vars

----------------------------------------------------------------------------
(* Properties of make_signal_event, checked under SpecEvent *)

\* The exception entry of the k-th event built.
Exc(k) == built.events[k].exception.values[1]

\* C14: every event built from a Signal Slot and a backtrace has the slot's
\* name and description as type and value, the mechanism "signalhandler",
\* synthetic, not handled, with the slot's signal name and number, and as many
\* frames as the backtrace primitive reported, never more than MAX_FRAMES;
\* two events built from the same inputs agree in all of these.
C14_EventIsFunction ==
    /\ \A k \in DOMAIN built.events :
          /\ built.events[k].level = "fatal"
          /\ Len(built.events[k].exception.values) = 1
          /\ Exc(k).mechanism.type = "signalhandler"
          /\ Exc(k).mechanism.synthetic = TRUE
          /\ Exc(k).mechanism.handled = FALSE
          /\ built.slot # 0 =>
                /\ Exc(k).type = SIGNAL_DEFINITIONS[built.slot].signame
                /\ Exc(k).value = SIGNAL_DEFINITIONS[built.slot].sigdesc
                /\ Exc(k).mechanism.meta.signal.has
                /\ Exc(k).mechanism.meta.signal.name = SIGNAL_DEFINITIONS[built.slot].signame
                /\ Exc(k).mechanism.meta.signal.number = SIGNAL_DEFINITIONS[built.slot].signum
          /\ Len(Exc(k).stacktrace.frames) = Len(built.bt)
          /\ Len(Exc(k).stacktrace.frames) <= MAX_FRAMES
    /\ Len(built.events) = 2 =>
          /\ Exc(1).type = Exc(2).type
          /\ Exc(1).value = Exc(2).value
          /\ Exc(1).mechanism = Exc(2).mechanism
          /\ Len(Exc(1).stacktrace.frames) = Len(Exc(2).stacktrace.frames)

C14_Witness ==
    /\ Len(built.events) = 2
    /\ built.slot = SIGNAL_COUNT
    /\ Len(built.bt) = MAX_FRAMES
    /\ Len(Exc(2).stacktrace.frames) = MAX_FRAMES
    /\ Exc(2).type = "SIGSEGV"

\* C15: with a primitive that produces the addresses oldest first, frame i of
\* every event built is the i-th address the primitive produced.
C15_FramesOldestFirst ==
    \A k \in DOMAIN built.events :
        \A i \in DOMAIN Exc(k).stacktrace.frames :
            Exc(k).stacktrace.frames[i].instruction_addr = built.bt[i]

----------------------------------------------------------------------------
(* Properties of the top-level exception filter, checked under SpecWindows *)

\* The top-level filter was called for an exception in this step.
FilterCalled ==
    /\ last_exception' # last_exception
    /\ last_exception'.via = "filter"

\* C19: a call of the top-level filter returns "continue search" whatever the
\* exception code; for the breakpoint and single-step codes it writes no
\* marker, swaps no transport, ends no session and captures no event; for
\* every other code it runs the capture pipeline exactly once.
C19_FilterSkipsDebuggerCodes ==
    [][FilterCalled =>
          /\ last_exception'.result = "EXCEPTION_CONTINUE_SEARCH"
          /\ IF last_exception'.code \in {"EXCEPTION_BREAKPOINT", "EXCEPTION_SINGLE_STEP"}
             THEN /\ last_exception'.runs = 0
                  /\ UNCHANGED <<crash_marker, opts_transport, session, ended_sessions,
                                 captured, trace>>
             ELSE /\ last_exception'.runs = 1
                  /\ crash_marker' = crash_marker + 1
                  /\ captured' = captured + 1
                  /\ opts_transport' = "disk"
                  /\ session' = "none"
                  /\ Cardinality({k \in DOMAIN trace'["t1"] :
                                     trace'["t1"][k].step = "enter"}) = 1
                  /\ Cardinality({k \in DOMAIN trace'["t1"] :
                                     trace'["t1"][k].step = "event"}) = 1]_vars

C19_Witness ==
    /\ last_exception.via = "filter"
    /\ last_exception.code = "EXCEPTION_SINGLE_STEP"
    /\ last_exception.result = "EXCEPTION_CONTINUE_SEARCH"
    /\ last_exception.runs = 0
    /\ crash_marker = 0
    /\ captured = 0
    /\ session = "active"

\* C21: every call of the top-level filter that runs the capture pipeline while
\* a filter registered before startup is saved in g_previous_handler yields
\* control to that saved filter, once, after the capture.
C21_PreviousFilterChained ==
    [][(/\ FilterCalled
        /\ last_exception'.runs = 1
        /\ g_previous_handler # "NULL")
       => last_exception'.chained = <<g_previous_handler>>]_vars

----------------------------------------------------------------------------
(* Properties of the breadcrumb ring, checked under SpecCrashpad *)

Records == Len(fileA) + Len(fileB)

\* The most recent min(n, MAX) breadcrumbs after n calls, by call number.
Recent == {k \in 0..(crumb_calls - 1) : k >= crumb_calls - SENTRY_BREADCRUMBS_MAX}

InOneFile == Recent \subseteq Held(fileA) \/ Recent \subseteq Held(fileB)

\* C5 as claimed: after n successful add_breadcrumb calls the two files
\* together hold min(n, 2*MAX) records.
C5_TotalIsMin ==
    all_ok => Records = Min(crumb_calls, 2 * SENTRY_BREADCRUMBS_MAX)

\* C5 amended: after n successful add_breadcrumb calls the two files together
\* hold n records while n <= MAX, and MAX + ((n - 1) mod MAX) + 1 records
\* after that: the file being filled was emptied when its turn came.
C5_TotalRecords ==
    all_ok => Records = IF crumb_calls <= SENTRY_BREADCRUMBS_MAX THEN crumb_calls
                        ELSE SENTRY_BREADCRUMBS_MAX
                             + ((crumb_calls - 1) % SENTRY_BREADCRUMBS_MAX) + 1

C5_Witness ==
    /\ all_ok
    /\ crumb_calls = 2 * SENTRY_BREADCRUMBS_MAX + 1
    /\ Records = SENTRY_BREADCRUMBS_MAX + 1

\* C6 as claimed: after n successful calls the most recent min(n, MAX)
\* breadcrumbs are all held by a single one of the two files.
C6_RecentInOneFile == all_ok => InOneFile

\* C6 amended: after n successful calls the most recent min(n, MAX)
\* breadcrumbs are all held by the two files together, and by a single file
\* exactly when n <= MAX or n is a multiple of MAX.
C6_RecentRetained ==
    all_ok =>
        /\ Recent \subseteq (Held(fileA) \cup Held(fileB))
        /\ InOneFile <=> (\/ crumb_calls <= SENTRY_BREADCRUMBS_MAX
                          \/ crumb_calls % SENTRY_BREADCRUMBS_MAX = 0)

C6_Witness ==
    /\ all_ok
    /\ crumb_calls = SENTRY_BREADCRUMBS_MAX + 1
    /\ ~InOneFile
    /\ Recent \subseteq (Held(fileA) \cup Held(fileB))

\* C7: whatever serializations and writes fail, each breadcrumb file holds at
\* most MAX records, so at most 2*MAX records are on disk.
C7_FileCap ==
    /\ Len(fileA) <= SENTRY_BREADCRUMBS_MAX
    /\ Len(fileB) <= SENTRY_BREADCRUMBS_MAX

\* The file call number k is to use, and whether it is to start that file over.
TargetOfCall(k) ==
    IF k % (2 * SENTRY_BREADCRUMBS_MAX) < SENTRY_BREADCRUMBS_MAX THEN "A" ELSE "B"

OverwriteOnCall(k) == k % SENTRY_BREADCRUMBS_MAX = 0

\* C8: on a started backend call number k (from 0) targets file A when
\* k mod 2*MAX < MAX and file B otherwise; a call that writes leaves its target
\* holding only the new record iff k mod MAX = 0 and appends the record
\* otherwise, and leaves the other file alone; after 2*MAX + 1 successful calls
\* file A holds exactly 1 record and file B exactly MAX.
C8_Rotation ==
    /\ [][crumb_calls' = crumb_calls + 1 /\ last_call'.outcome # "unset" =>
            LET k == crumb_calls
                old == IF TargetOfCall(k) = "A" THEN fileA ELSE fileB
                new == IF TargetOfCall(k) = "A" THEN fileA' ELSE fileB'
                other == IF TargetOfCall(k) = "A" THEN fileB' = fileB ELSE fileA' = fileA
            IN  /\ last_call'.target = TargetOfCall(k)
                /\ other
                /\ last_call'.outcome = "ok" =>
                      /\ last_call'.mode = (IF OverwriteOnCall(k) THEN "write" ELSE "append")
                      /\ new = IF OverwriteOnCall(k) THEN <<k>> ELSE Append(old, k)]_vars
    /\ [](all_ok /\ crumb_calls = 2 * SENTRY_BREADCRUMBS_MAX + 1 =>
            Len(fileA) = 1 /\ Len(fileB) = SENTRY_BREADCRUMBS_MAX)

C8_Witness ==
    /\ all_ok
    /\ crumb_calls = 2 * SENTRY_BREADCRUMBS_MAX + 1
    /\ fileA = <<2 * SENTRY_BREADCRUMBS_MAX>>
    /\ Len(fileB) = SENTRY_BREADCRUMBS_MAX
    /\ last_call.mode = "write"

\* C9: every add_breadcrumb call adds exactly 1 to the counter, whether the
\* target path is unset, serialization fails, the write fails or all succeeds,
\* so the counter a call reads is the number of calls made before it.
C9_CounterAdvances ==
    [][crumb_calls' = crumb_calls + 1 =>
          /\ data'.num_breadcrumbs = data.num_breadcrumbs + 1
          /\ data.num_breadcrumbs = crumb_calls]_vars

C9_Witness ==
    /\ ~all_ok
    /\ last_call.outcome \in {"unset", "serialization_failed", "open_failed", "write_failed"}
    /\ last_call.k >= SENTRY_BREADCRUMBS_MAX
    /\ last_call.target = "B"
    /\ data.num_breadcrumbs = last_call.k + 1

\* C10: when add_breadcrumb returns, the caller's reference to the breadcrumb
\* has been released, on every return path.
C10_ReferenceConsumed == crumb_calls > 0 => crumb_refs = 0

----------------------------------------------------------------------------
(* Properties of the crashpad backend's operations, checked under SpecLifecycle *)

\* C12, for the crashpad backend on POSIX: after except(ucontext) the steps
\* done are those the fault path does, in the same order: the marker, the
\* transport swap, the session ended as crashed, the queue dump.
C12_ExceptSamePipeline ==
    (trace["t1"] # << >> /\ trace["t1"][1].a = "except")
    => StageNames(trace["t1"])
           = StageNames(CrashpadHandlerSteps(trace["t1"][1].slot, opts_transport))

\* C16 as claimed: on a started backend the snapshot file holds exactly the
\* serialization written by the last flush whose serialization and write
\* succeeded.
C16_LastFlushWins ==
    data.event_path # "NULL" => scope_file = last_flush.good

\* C16 amended: on a started backend the snapshot file never holds more than
\* one snapshot; it holds exactly the serialization written by the last flush
\* whose serialization and write succeeded, unless the write of a later flush
\* failed on the opened file, and then it holds no snapshot; a flush whose
\* serialization fails, or whose file cannot be opened, leaves the file as
\* it was.
C16_LastFlushUnlessTorn ==
    /\ [](data.event_path # "NULL" =>
             /\ Len(scope_file) <= 1
             /\ scope_file = IF last_flush.torn THEN << >> ELSE last_flush.good)
    /\ [][last_flush'.outcome \in {"serialization_failed", "open_failed", "unset"}
             => scope_file' = scope_file]_vars

C16_Witness ==
    /\ last_flush.outcome = "serialization_failed"
    /\ ~last_flush.torn
    /\ scope = "scope2"
    /\ scope_file = <<"scope1">>
    /\ last_flush.good = <<"scope1">>

\* The startup of the backend never ran, or returned at the check of the
\* handler path, or at the failed start of the handler.
NeverStarted == ~first_chance_handler

\* C18: on a backend that was created but never started, or whose startup
\* returned early, no call of user_consent_changed, flush_scope,
\* add_breadcrumb, shutdown or free dereferences a null database or path, the
\* calls on unset state leave the files alone, and free releases the state
\* exactly once.
C18_ToleratesUnstarted ==
    NeverStarted =>
        /\ ~backend.null_deref
        /\ backend.frees = IF backend.data = "freed" THEN 1 ELSE 0
        /\ data.event_path = "NULL" =>
              /\ backend.uploads = "unset"
              /\ scope_file = << >> /\ fileA = << >> /\ fileB = << >>
              /\ last_flush.outcome \in {"none", "unset"}
              /\ last_call.outcome \in {"none", "unset"}

C18_Witness ==
    /\ NeverStarted
    /\ data.event_path = "NULL"
    /\ backend.data = "freed"
    /\ backend.frees = 1
    /\ last_flush.outcome = "unset"
    /\ last_call.outcome = "unset"
    /\ crumb_calls = MaxCrumbsLifecycle

====
